---- MODULE Spec2Model ----
(***************************************************************************)
(* web-recorder: the Replayer (src/automated/replay.ts and the older       *)
(* replayer kept in src/unnamed/part_000, lines 200-400) and the Recorder  *)
(* (src/unnamed/part_000, lines 1-198), as state machines.                 *)
(*                                                                         *)
(* Strings whose characters matter (firstP) are sequences of one-character *)
(* strings; every await of a driver or transport operation may reject.     *)
(* File-system writes (writeFileSync) are taken to succeed.  timestamp     *)
(* (Date.now()) is carried by no modelled operation and is left out.       *)
(***************************************************************************)
EXTENDS Integers, Sequences, FiniteSets, TLC

\* ------------------------------------------------------------------ bounds

\* Longest recorded step sequence the Replayer is given.
MaxSteps == 2

\* Clicks on anchors in one recording session.
MaxClicks == 2

\* SIGINT/SIGTERM signals in one recording session.
MaxSignals == 2

\* ------------------------------------------------------------ pure helpers

\* A string property that is absent (JSON without the key): undefined.
Undefined == <<"undefined">>

\* The characters /\s/ matches, among the ones used here.
Whitespace == {" ", "\t"}

\* s.replace(/\s+/g, " "): every maximal whitespace run becomes one space.
\* A whitespace character that follows another belongs to a run already
\* replaced and is dropped; the first of a run becomes the space.
Collapse(s) ==
    LET marked == [k \in 1..Len(s) |->
                     [c |-> IF s[k] \in Whitespace THEN " " ELSE s[k],
                      inRun |-> /\ s[k] \in Whitespace
                                /\ k > 1
                                /\ s[k - 1] \in Whitespace]]
        kept == SelectSeq(marked, LAMBDA m : ~m.inRun)
    IN  [k \in 1..Len(kept) |-> kept[k].c]

\* String.prototype.trim(): leading and trailing whitespace removed.
RECURSIVE TrimLeft(_)
TrimLeft(s) ==
    IF s # <<>> /\ Head(s) \in Whitespace THEN TrimLeft(Tail(s)) ELSE s

RECURSIVE TrimRight(_)
TrimRight(s) ==
    IF s # <<>> /\ s[Len(s)] \in Whitespace
    THEN TrimRight(SubSeq(s, 1, Len(s) - 1))
    ELSE s

Trim(s) == TrimRight(TrimLeft(s))

\* s || "": undefined and "" are falsy.
OrEmpty(s) == IF s = Undefined \/ s = <<>> THEN <<>> ELSE s

\* normalize(s?) of the Replayer.
normalize(s) == Trim(Collapse(OrEmpty(s)))

\* ------------------------------------------------------------ input sets

Snapshot(t, h, fp, m) ==
    [title |-> t, h1 |-> h, firstP |-> fp, metaDescription |-> m]

\* isInitial is FALSE where the property is absent.
MkStep(sel, u, href, c, initial) ==
    [selector |-> sel, url |-> u, target_href |-> href, content |-> c,
     isInitial |-> initial]

\* selector of the initial step (null).
Null == <<"null">>

\* Steps a store may hold: the same paragraph under two titles, once with
\* other whitespace, and a content that lacks firstP.
StepValues ==
    { MkStep(Null, "u0", "u0",
             Snapshot("T1", "H1", <<"a", " ", "b">>, "M1"), TRUE),
      MkStep(<<"a#", "x">>, "u0", "u1",
             Snapshot("T2", "H2", <<" ", "a", " ", "\t", "b">>, "M2"), FALSE),
      MkStep(<<"a#", "y">>, "u1", "u2",
             Snapshot("T1", "H1", Undefined, "M1"), FALSE) }

\* What extractContent may return for the page a step opens.
LiveSnaps ==
    { Snapshot("T1", "H1", <<"a", " ", "b">>, "M1"),
      Snapshot("T2", "H2", <<"a", "\t", "b", " ">>, "M2"),
      Snapshot("T1", "H1", <<"b">>, "M1"),
      Snapshot("T1", "H1", <<>>, "M1") }

RECURSIVE SeqsUpTo(_, _)
SeqsUpTo(S, n) ==
    IF n = 0 THEN {<<>>}
    ELSE LET shorter == SeqsUpTo(S, n - 1)
         IN  shorter \cup {Append(q, x) : q \in {r \in shorter : Len(r) = n - 1}, x \in S}

\* steps.json: absent, or present with the sequence it parses to.
NoFile == [exists |-> FALSE, steps |-> <<>>]
StoreOf(q) == [exists |-> TRUE, steps |-> q]

\* process.env settings the Replayer requires.
RequiredSettings ==
    {"EMAIL_HOST", "EMAIL_PORT", "EMAIL_USER", "EMAIL_PASS", "ALERT_TO"}

\* Environments: everything set, or exactly one required setting missing.
Environments ==
    {RequiredSettings} \cup {RequiredSettings \ {k} : k \in RequiredSettings}

\* Messages of the errors the awaited operations reject with.
ErrLaunch == "browserType.launch: failed"
ErrGoto == "page.goto: Timeout exceeded"
ErrSettle == "page.waitForTimeout(1000): Target closed"
ErrPause == "page.waitForTimeout(500): Target closed"
ErrEvaluate == "page.evaluate: Execution context was destroyed"
ErrSendMail == "sendMail: connection refused"
ErrClose == "browser.close: failed"
NoErr == "none"


\* ----------------------------------------------------- content extraction

\* txt.length > 40
Threshold == 40

\* slice(0, 200)
FallbackLen == 200

\* Paragraphs in one document.
MaxParas == 2

\* n copies of the character c.
Rep(c, n) == [k \in 1..n |-> c]

\* textContent of paragraphs: 41 characters; 40 characters inside
\* whitespace; 42 characters once its whitespace run is collapsed; short.
ParaTexts ==
    { Rep("a", 41),
      <<" ">> \o Rep("b", 40) \o <<"\t", " ">>,
      <<"d", " ", "\t">> \o Rep("d", 40),
      <<"s">> }

\* document.body.innerText: empty; whitespace only; short; 201 characters;
\* 199 characters, a whitespace run and two more.
BodyTexts ==
    { <<>>,
      <<" ", "\t">>,
      <<"a", "\t", "b", " ">>,
      Rep("e", 201),
      Rep("f", 199) \o <<" ", " ", "z", "z">> }

\* #mw-content-text: absent, or holding the paragraphs lo..hi of the document.
NoRoot == [present |-> FALSE, lo |-> 1, hi |-> 0]
RootAt(lo, hi) == [present |-> TRUE, lo |-> lo, hi |-> hi]

\* The regions a document of n paragraphs may have: none, one without
\* paragraphs, one around any run of its paragraphs.
Roots(n) ==
    {NoRoot, RootAt(1, 0)}
      \cup UNION { {RootAt(lo, hi) : hi \in lo..n} : lo \in 1..n }

\* A document: its title, first h1 and description, its paragraphs in
\* document order, the main content region, and its visible text.
Document(t, h, m, ps, root, text) ==
    [title |-> t, h1 |-> h, meta |-> m, paras |-> ps, root |-> root,
     innerText |-> text]

Documents ==
    UNION { { Document("T", "H", "M", ps, root, text) :
                root \in Roots(Len(ps)), text \in BodyTexts } :
            ps \in SeqsUpTo(ParaTexts, MaxParas) }


\* s.slice(0, n)
Slice(s, n) == SubSeq(s, 1, IF Len(s) < n THEN Len(s) ELSE n)

\* A test that accepts a text of exactly 40 characters.
QualifiesFrom40(txt) == Len(txt) >= Threshold

\* if (txt.length > 40) return txt;
Qualifies(txt) == Len(txt) > Threshold

\* candidates (part_000 51-57): the paragraphs of #mw-content-text, if there
\* is one, then every paragraph of the document.
Candidates(d) ==
    (IF d.root.present THEN SubSeq(d.paras, d.root.lo, d.root.hi) ELSE <<>>)
      \o d.paras

\* The loop over the candidates from index k on (part_000 59-62): the text
\* it returns, or nothing.
RECURSIVE FirstLong(_, _)
FirstLong(candidates, k) ==
    IF k > Len(candidates) THEN [found |-> FALSE, txt |-> <<>>]
    ELSE LET txt == Trim(Collapse(candidates[k]))
         IN  IF Qualifies(txt) THEN [found |-> TRUE, txt |-> txt]
             ELSE FirstLong(candidates, k + 1)

\* extractFirstP of the Recorder (part_000 50-66).
extractFirstP(d) ==
    LET hit == FirstLong(Candidates(d), 1)
    IN  IF hit.found THEN hit.txt
        ELSE Slice(Trim(Collapse(d.innerText)), FallbackLen)

\* extractContent of the Recorder (part_000 46-78), on the document the page
\* shows; h1 and the description are "" where the element is absent.
extractContent(d) == Snapshot(d.title, d.h1, extractFirstP(d), d.meta)

\* The loop of the Replayer's extractFirstP (replay.ts 63-66).
RECURSIVE replayFirstLong(_, _)
replayFirstLong(candidates, k) ==
    IF k > Len(candidates) THEN [found |-> FALSE, txt |-> <<>>]
    ELSE LET txt == Trim(Collapse(candidates[k]))
         IN  IF Len(txt) > Threshold THEN [found |-> TRUE, txt |-> txt]
             ELSE replayFirstLong(candidates, k + 1)

\* extractFirstP of the Replayer (replay.ts 55-69; the older replayer has the
\* same function at part_000 255-268).
replayExtractFirstP(d) ==
    LET root == IF d.root.present
                THEN SubSeq(d.paras, d.root.lo, d.root.hi) ELSE <<>>
        hit == replayFirstLong(root \o d.paras, 1)
    IN  IF hit.found THEN hit.txt
        ELSE Slice(Trim(Collapse(d.innerText)), FallbackLen)

\* extractContent of the Replayer (replay.ts 53-79).
replayExtractContent(d) ==
    Snapshot(d.title, d.h1, replayExtractFirstP(d), d.meta)


\* The state of an extraction run on its own.
VARIABLES
    doc,               \* the document the page shows
    recorded,          \* what the Recorder's extractContent returned for it
    replayed           \* what the Replayer's extractContent returned for it

extVars == <<doc, recorded, replayed>>


\* --------------------------------------------------------------- Replayer

VARIABLES
    legacy,            \* TRUE: the replayer of part_000:200-400; FALSE: replay.ts
    storeFile,         \* steps.json on disk: NoFile or the parsed sequence
    env,               \* the required settings present in process.env
    pc,                \* position of main
    steps,             \* steps (loaded)
    results,           \* results
    hasMismatch,       \* hasMismatch (replay.ts only)
    failureEmailSent,  \* failureEmailSent
    i,                 \* loop index, 0-based as in the code
    live,              \* live, the content of the page just opened
    err,               \* the error the catch clause received
    uncaught,          \* the error leaving the try statement, if any
    browser,           \* "none", "open", "closed"
    navigated,         \* target_href of every page.goto issued, in order
    alerts,            \* every sendFailureEmail call, in order
    report,            \* replay-report.html: NoReport or its step blocks
    exitCode           \* -1 while the process runs

VARIABLES
    rMain,             \* position of the Recorder's main
    rSteps,            \* steps of the Recorder (in memory)
    rStore,            \* the Recorder's steps.json
    shuttingDown,      \* shuttingDown
    gePc,              \* position of the gracefulExit call that took the latch
    alive,             \* the Recorder process runs
    rExitCode,         \* its exit code, -1 while it runs
    rBrowser,          \* "open" or "closed"
    pageOpen,          \* the page exists
    pageUrl,           \* page.url()
    handlers,          \* the recordClick calls, by click number
    nClicks,           \* clicks on anchors so far
    pendingEvents,     \* close/disconnected events emitted, not yet delivered
    emitted,           \* close/disconnected events emitted so far
    nSignals,          \* SIGINT/SIGTERM received so far
    shutdownSaves,     \* saveSteps calls made by gracefulExit
    exitCalls,         \* process.exit calls
    saves,             \* saveSteps calls of this session
    syncOwner,         \* who is between steps.push and saveSteps
    lastClick          \* the latest click on an anchor and what the listener did

recVars ==
    <<rMain, rSteps, rStore, shuttingDown, gePc, alive, rExitCode, rBrowser,
      pageOpen, pageUrl, handlers, nClicks, pendingEvents, emitted, nSignals,
      shutdownSaves, exitCalls, saves, syncOwner, lastClick>>

replayVars ==
    <<legacy, storeFile, env, pc, steps, results, hasMismatch, failureEmailSent,
      i, live, err, uncaught, browser, navigated, alerts, report, exitCode>>

NoReport == [written |-> FALSE, blocks |-> <<>>]
NoLive == Snapshot("", "", <<>>, "")

SubjectMismatch == "Web Replay Verification Failed"
SubjectCrashed == "Web Replay Crashed"
LegacyReason == "Browser closed unexpectedly or script crashed"

\* buildMinimalFailureEmail(data): the Reason paragraph is rendered only for
\* a truthy reason.
buildMinimalFailureEmail(step, url, recordedFirstP, liveFirstP, reason) ==
    [step |-> step, url |-> url,
     reason |-> IF reason = "" THEN "no reason paragraph" ELSE reason,
     recordedFirstP |-> recordedFirstP, liveFirstP |-> liveFirstP]

\* x || "<empty>"
OrPlaceholder(x) == IF x = <<>> THEN <<"<empty>">> ELSE x

\* One sendFailureEmail(subject, html) call; delivered is FALSE when
\* transporter.sendMail rejected.
Email(subject, html, delivered) ==
    [subject |-> subject, html |-> html, delivered |-> delivered]

\* { ...step, liveContent: live, pass }
StepResult(step, liveContent, pass) ==
    [selector |-> step.selector, url |-> step.url,
     target_href |-> step.target_href, content |-> step.content,
     isInitial |-> step.isInitial,
     liveContent |-> liveContent, pass |-> pass]

\* The report's block for one result.
ReportBlock(r) ==
    [status |-> IF r.pass THEN "PASS" ELSE "FAIL",
     openedUrl |-> r.target_href,
     recorded |-> r.content.firstP,
     live |-> r.liveContent.firstP]

ReportOf(rs) ==
    [written |-> TRUE, blocks |-> [k \in 1..Len(rs) |-> ReportBlock(rs[k])]]

\* An uncaught rejection of main ends the process with exit code 1
\* (Node's default handling of unhandled rejections).
DieUncaught(e) ==
    /\ pc' = "exited"
    /\ exitCode' = 1
    /\ uncaught' = e

ReplayInit ==
    /\ legacy \in BOOLEAN
    /\ storeFile \in {NoFile} \cup {StoreOf(q) : q \in SeqsUpTo(StepValues, MaxSteps)}
    /\ env \in Environments
    /\ pc = "load"
    /\ steps = <<>>
    /\ results = <<>>
    /\ hasMismatch = FALSE
    /\ failureEmailSent = FALSE
    /\ i = 0
    /\ live = NoLive
    /\ err = NoErr
    /\ uncaught = NoErr
    /\ browser = "none"
    /\ navigated = <<>>
    /\ alerts = <<>>
    /\ report = NoReport
    /\ exitCode = -1

\* The empty check left out.
NoStepsIgnored(q) == FALSE

\* !steps.length
NoSteps(q) == Len(q) = 0

\* replay.ts 85-96: loadSteps in a try, exit(1) when it throws, exit(0) when
\* the sequence is empty.
LoadCurrent ==
    /\ pc = "load" /\ ~legacy
    /\ IF ~storeFile.exists
       THEN /\ pc' = "exited" /\ exitCode' = 1
            /\ UNCHANGED steps
       ELSE IF NoSteps(storeFile.steps)
       THEN /\ pc' = "exited" /\ exitCode' = 0
            /\ steps' = storeFile.steps
       ELSE /\ pc' = "config"
            /\ steps' = storeFile.steps
            /\ UNCHANGED exitCode
    /\ UNCHANGED <<recVars, extVars>>
    /\ UNCHANGED <<legacy, storeFile, env, results, hasMismatch, failureEmailSent,
                   i, live, err, uncaught, browser, navigated, alerts, report>>

\* part_000 284-288: loadSteps outside any try, return when empty, and no
\* configuration check before the launch.
LoadLegacy ==
    /\ pc = "load" /\ legacy
    /\ IF ~storeFile.exists
       THEN /\ DieUncaught("steps.json not found. Run recorder first.")
            /\ UNCHANGED steps
       ELSE IF NoSteps(storeFile.steps)
       THEN /\ pc' = "exited" /\ exitCode' = 0
            /\ steps' = storeFile.steps
            /\ UNCHANGED uncaught
       ELSE /\ pc' = "launch"
            /\ steps' = storeFile.steps
            /\ UNCHANGED <<exitCode, uncaught>>
    /\ UNCHANGED <<recVars, extVars>>
    /\ UNCHANGED <<legacy, storeFile, env, results, hasMismatch, failureEmailSent,
                   i, live, err, browser, navigated, alerts, report>>

\* replay.ts 99-114.
CheckConfig ==
    /\ pc = "config"
    /\ IF env # RequiredSettings
       THEN pc' = "exited" /\ exitCode' = 1
       ELSE pc' = "launch" /\ UNCHANGED exitCode
    /\ UNCHANGED <<recVars, extVars>>
    /\ UNCHANGED <<legacy, storeFile, env, steps, results, hasMismatch,
                   failureEmailSent, i, live, err, uncaught, browser, navigated,
                   alerts, report>>

\* chromium.launch, outside the try statement.
Launch ==
    /\ pc = "launch"
    /\ \E ok \in BOOLEAN :
         IF ok
         THEN /\ browser' = "open" /\ pc' = "newContext"
              /\ UNCHANGED <<exitCode, uncaught>>
         ELSE /\ DieUncaught(ErrLaunch)
              /\ UNCHANGED browser
    /\ UNCHANGED <<recVars, extVars>>
    /\ UNCHANGED <<legacy, storeFile, env, steps, results, hasMismatch,
                   failureEmailSent, i, live, err, navigated, alerts, report>>

\* browser.newContext() and context.newPage(), outside the try statement.
NewContextAndPage ==
    /\ pc \in {"newContext", "newPage"}
    /\ \E ok \in BOOLEAN :
         IF ok
         THEN /\ pc' = IF pc = "newContext" THEN "newPage" ELSE "loop"
              /\ UNCHANGED <<exitCode, uncaught>>
         ELSE DieUncaught(ErrLaunch)
    /\ UNCHANGED <<recVars, extVars>>
    /\ UNCHANGED <<legacy, storeFile, env, steps, results, hasMismatch,
                   failureEmailSent, i, live, err, browser, navigated, alerts,
                   report>>

\* A rejection swallowed per step: the loop goes on.
ThrowAndGoOn(e) ==
    /\ pc' = "pause"
    /\ err' = e

\* A rejection inside the try block: control passes to the catch clause.
Throw(e) ==
    /\ pc' = "catch"
    /\ err' = e

\* for-loop test true, then page.goto(step.target_href, ...).
Goto ==
    /\ pc = "loop" /\ i < Len(steps)
    /\ navigated' = Append(navigated, steps[i + 1].target_href)
    /\ \E ok \in BOOLEAN :
         IF ok THEN pc' = "settle" /\ UNCHANGED err ELSE Throw(ErrGoto)
    /\ UNCHANGED <<recVars, extVars>>
    /\ UNCHANGED <<legacy, storeFile, env, steps, results, hasMismatch,
                   failureEmailSent, i, live, uncaught, browser, alerts, report,
                   exitCode>>

\* for-loop test false: the try block completes.
LoopExit ==
    /\ pc = "loop" /\ ~(i < Len(steps))
    /\ pc' = "finally"
    /\ UNCHANGED <<recVars, extVars>>
    /\ UNCHANGED <<legacy, storeFile, env, steps, results, hasMismatch,
                   failureEmailSent, i, live, err, uncaught, browser, navigated,
                   alerts, report, exitCode>>

\* page.waitForTimeout(1000) after the navigation.
Settle ==
    /\ pc = "settle"
    /\ \E ok \in BOOLEAN :
         IF ok THEN pc' = "extract" /\ UNCHANGED err ELSE Throw(ErrSettle)
    /\ UNCHANGED <<recVars, extVars>>
    /\ UNCHANGED <<legacy, storeFile, env, steps, results, hasMismatch,
                   failureEmailSent, i, live, uncaught, browser, navigated,
                   alerts, report, exitCode>>

\* const live = await extractContent(page).
Extract ==
    /\ pc = "extract"
    /\ \/ \E l \in LiveSnaps :
            /\ live' = l /\ pc' = "compare" /\ UNCHANGED err
       \/ Throw(ErrEvaluate) /\ UNCHANGED live
    /\ UNCHANGED <<recVars, extVars>>
    /\ UNCHANGED <<legacy, storeFile, env, steps, results, hasMismatch,
                   failureEmailSent, i, uncaught, browser, navigated, alerts,
                   report, exitCode>>

\* A comparison that also looks at the title.
PassTitleToo(step, liveContent) ==
    /\ normalize(step.content.firstP) = normalize(liveContent.firstP)
    /\ step.content.title = liveContent.title

\* pass of the step: the normalized recorded and live firstP are equal.
PassOf(step, liveContent) ==
    normalize(step.content.firstP) = normalize(liveContent.firstP)

\* replay.ts 140-153: compare and record the StepResult.
Compare ==
    /\ pc = "compare"
    /\ LET step == steps[i + 1]
           pass == PassOf(step, live)
       IN  /\ hasMismatch' = IF ~pass /\ ~legacy THEN TRUE ELSE hasMismatch
           /\ results' = Append(results, StepResult(step, live, pass))
    /\ pc' = "alert"
    /\ UNCHANGED <<recVars, extVars>>
    /\ UNCHANGED <<legacy, storeFile, env, steps, failureEmailSent, i, live, err,
                   uncaught, browser, navigated, alerts, report, exitCode>>

\* The guard without the latch.
ShouldAlertNoLatch(pass, sent) == ~pass

\* if (!pass && !failureEmailSent)
ShouldAlert(pass, sent) == ~pass /\ ~sent

\* replay.ts 155-167, a mismatch with the latch open: set the latch, then
\* await sendFailureEmail.
MismatchAlert ==
    /\ pc = "alert"
    /\ ShouldAlert(results[Len(results)].pass, failureEmailSent)
    /\ failureEmailSent' = TRUE
    /\ LET step == steps[i + 1]
           html == buildMinimalFailureEmail(
                       i + 1, step.target_href,
                       OrPlaceholder(normalize(step.content.firstP)),
                       OrPlaceholder(normalize(live.firstP)), "")
       IN  \E ok \in BOOLEAN :
             /\ alerts' = Append(alerts, Email(SubjectMismatch, html, ok))
             /\ IF ok THEN pc' = "pause" /\ UNCHANGED err
                      ELSE Throw(ErrSendMail)
    /\ UNCHANGED <<recVars, extVars>>
    /\ UNCHANGED <<legacy, storeFile, env, steps, results, hasMismatch, i, live,
                   uncaught, browser, navigated, report, exitCode>>

\* replay.ts 155: the step passed, or an alert was already sent.
NoAlert ==
    /\ pc = "alert"
    /\ ~ShouldAlert(results[Len(results)].pass, failureEmailSent)
    /\ pc' = "pause"
    /\ UNCHANGED <<recVars, extVars>>
    /\ UNCHANGED <<legacy, storeFile, env, steps, results, hasMismatch,
                   failureEmailSent, i, live, err, uncaught, browser, navigated,
                   alerts, report, exitCode>>

\* page.waitForTimeout(500), then i++.
Pause ==
    /\ pc = "pause"
    /\ \E ok \in BOOLEAN :
         IF ok THEN pc' = "loop" /\ i' = i + 1 /\ UNCHANGED err
               ELSE Throw(ErrPause) /\ UNCHANGED i
    /\ UNCHANGED <<recVars, extVars>>
    /\ UNCHANGED <<legacy, storeFile, env, steps, results, hasMismatch,
                   failureEmailSent, live, uncaught, browser, navigated, alerts,
                   report, exitCode>>

\* The reason the crash alert carries: the error's message in replay.ts, a
\* fixed text in the older replayer.
CrashReason == IF legacy THEN LegacyReason ELSE err

\* A catch clause whose failed send ends the run at once, finally skipped.
CrashAlertNoFinally ==
    /\ pc = "catch" /\ ~failureEmailSent
    /\ LET html == buildMinimalFailureEmail(-1, "N/A", <<>>, <<>>, CrashReason)
       IN  \E ok \in BOOLEAN :
             /\ alerts' = Append(alerts, Email(SubjectCrashed, html, ok))
             /\ IF ok
                THEN pc' = "finally" /\ UNCHANGED <<uncaught, exitCode>>
                ELSE DieUncaught(ErrSendMail)
    /\ UNCHANGED <<recVars, extVars>>
    /\ UNCHANGED <<legacy, storeFile, env, steps, results, hasMismatch,
                   failureEmailSent, i, live, err, browser, navigated, report>>

\* catch clause, latch open: await sendFailureEmail("Crashed", ...).  A
\* rejection here leaves the try statement once finally has run.
CrashAlert ==
    /\ pc = "catch" /\ ~failureEmailSent
    /\ LET html == buildMinimalFailureEmail(-1, "N/A", <<>>, <<>>, CrashReason)
       IN  \E ok \in BOOLEAN :
             /\ alerts' = Append(alerts, Email(SubjectCrashed, html, ok))
             /\ uncaught' = IF ok THEN NoErr ELSE ErrSendMail
    /\ pc' = "finally"
    /\ UNCHANGED <<recVars, extVars>>
    /\ UNCHANGED <<legacy, storeFile, env, steps, results, hasMismatch,
                   failureEmailSent, i, live, err, browser, navigated, report,
                   exitCode>>

\* catch clause, latch set: nothing is sent.
CrashNoAlert ==
    /\ pc = "catch" /\ failureEmailSent
    /\ pc' = "finally"
    /\ UNCHANGED <<recVars, extVars>>
    /\ UNCHANGED <<legacy, storeFile, env, steps, results, hasMismatch,
                   failureEmailSent, i, live, err, uncaught, browser, navigated,
                   alerts, report, exitCode>>

\* finally: await browser.close(); then the pending rejection, if any,
\* leaves main.
Finally ==
    /\ pc = "finally"
    /\ \E ok \in BOOLEAN :
         IF ok
         THEN /\ browser' = "closed"
              /\ IF uncaught # NoErr
                 THEN pc' = "exited" /\ exitCode' = 1
                 ELSE pc' = "report" /\ UNCHANGED exitCode
              /\ UNCHANGED uncaught
         ELSE /\ DieUncaught(ErrClose)
              /\ UNCHANGED browser
    /\ UNCHANGED <<recVars, extVars>>
    /\ UNCHANGED <<legacy, storeFile, env, steps, results, hasMismatch,
                   failureEmailSent, i, live, err, navigated, alerts, report>>

\* replay.ts 192-227: build and write the report; main returns.
WriteReport ==
    /\ pc = "report"
    /\ report' = ReportOf(results)
    /\ pc' = "exited"
    /\ exitCode' = 0
    /\ UNCHANGED <<recVars, extVars>>
    /\ UNCHANGED <<legacy, storeFile, env, steps, results, hasMismatch,
                   failureEmailSent, i, live, err, uncaught, browser, navigated,
                   alerts>>

ReplayNext ==
    \/ LoadCurrent
    \/ LoadLegacy
    \/ CheckConfig
    \/ Launch
    \/ NewContextAndPage
    \/ Goto
    \/ LoopExit
    \/ Settle
    \/ Extract
    \/ Compare
    \/ MismatchAlert
    \/ NoAlert
    \/ Pause
    \/ CrashAlert
    \/ CrashNoAlert
    \/ Finally
    \/ WriteReport


\* --------------------------------------------------------------- Recorder

\* The site: the entry page and two more; u2 redirects to the entry page.
StartUrl == "u0"
Blank == "about:blank"

Redirect(u) == IF u = "u2" THEN "u0" ELSE u

\* The document the site serves at u; about:blank is empty.
SiteDoc(u) ==
    IF u = "u0"
    THEN Document("T0", "H0", "M0", <<>>, NoRoot, <<"t", "i", "g", "e", "r">>)
    ELSE IF u = "u1"
    THEN Document("T1", "H1", "M1", <<<<"c", "a", "t">>>>, RootAt(1, 1),
                  <<" ", "l", "i", "o", "n", "\t">>)
    ELSE Document("", "", "", <<>>, NoRoot, <<>>)

\* What extractContent returns on the page at u.
ContentOf(u) == extractContent(SiteDoc(u))

\* Anchors: id and raw href attribute (NoAttr when the attribute is absent).
NoAttr == "no href attribute"
Anchor(id, attr) == [id |-> id, attr |-> attr]
Anchors ==
    { Anchor("x", "/u1"), Anchor("", "/u2"), Anchor("", ""),
      Anchor("", NoAttr), Anchor("y", NoAttr) }

\* a.href: the attribute resolved against the document's URL, "" without one.
HrefOf(a, docUrl) ==
    IF a.attr = NoAttr THEN ""
    ELSE IF a.attr = "" THEN docUrl
    ELSE IF a.attr = "/u1" THEN "u1" ELSE "u2"

\* A derivation that prefers the href attribute to the id.
SelectorOfHrefFirst(a) ==
    IF a.attr \notin {NoAttr, ""} THEN <<"a[href=", a.attr>>
    ELSE IF a.id # "" THEN <<"a#", a.id>>
    ELSE <<>>

\* The selector the click listener derives (part_000 154-157).
SelectorOf(a) ==
    IF a.id # "" THEN <<"a#", a.id>>
    ELSE IF a.attr \notin {NoAttr, ""} THEN <<"a[href=", a.attr>>
    ELSE <<>>

\* The click listener on an anchor (part_000 150-166): "none" when it
\* returns before deriving a selector, "default" when it returns without
\* preventDefault and the browser follows the link, "notify" when it
\* suppresses the default and calls recordClick.
ClickOutcome(a, docUrl) ==
    IF HrefOf(a, docUrl) = "" THEN "none"
    ELSE IF SelectorOf(a) = <<>> THEN "default"
    ELSE "notify"

\* No anchor has been clicked yet.
NoClick == [anchor |-> Anchor("", NoAttr), outcome |-> "no click"]

\* Who runs the synchronous stretch from steps.push to saveSteps.
NoOwner == [who |-> "none", h |-> 0]
MainOwner == [who |-> "main", h |-> 0]
HandlerOwner(h) == [who |-> "handler", h |-> h]

IdleHandler ==
    [pc |-> "idle", selector |-> <<>>, href |-> "", fromUrl |-> "",
     rawTarget |-> "", finalUrl |-> ""]

\* A handler that returned or rejected.
EndedHandler ==
    [pc |-> "ended", selector |-> <<>>, href |-> "", fromUrl |-> "",
     rawTarget |-> "", finalUrl |-> ""]

\* A step left in the store by an earlier session.
OldStep == MkStep(Null, "u0", "u0", Snapshot("old", "old", <<"o">>, "old"), TRUE)

RecInit ==
    /\ rMain = "goto"
    /\ rSteps = <<>>
    /\ rStore \in {NoFile, StoreOf(<<OldStep>>)}
    /\ shuttingDown = FALSE
    /\ gePc = "idle"
    /\ alive = TRUE
    /\ rExitCode = -1
    /\ rBrowser = "open"
    /\ pageOpen = TRUE
    /\ pageUrl = Blank
    /\ handlers = [h \in 1..MaxClicks |-> IdleHandler]
    /\ nClicks = 0
    /\ pendingEvents = {}
    /\ emitted = {}
    /\ nSignals = 0
    /\ shutdownSaves = 0
    /\ exitCalls = 0
    /\ saves = 0
    /\ syncOwner = NoOwner
    /\ lastClick = NoClick

\* Host-side code runs one callback at a time, each to its next await.
Js == alive /\ syncOwner = NoOwner

\* A new navigation rejects every page.goto still pending.
Interrupt(hs) ==
    [h \in DOMAIN hs |->
        IF hs[h].pc \in {"goto", "committed"} THEN EndedHandler ELSE hs[h]]

\* A save that writes the newest step alone.
saveStepsLastOnly ==
    /\ rStore' = StoreOf(IF rSteps = <<>> THEN <<>> ELSE <<rSteps[Len(rSteps)]>>)
    /\ saves' = saves + 1

\* saveSteps(steps): the whole sequence replaces the file.
saveSteps ==
    /\ rStore' = StoreOf(rSteps)
    /\ saves' = saves + 1

\* page.goto(startUrl) resolves.
MainGotoDone ==
    /\ Js /\ rMain = "goto" /\ pageOpen
    /\ pageUrl' = Redirect(StartUrl)
    /\ rMain' = "wait"
    /\ UNCHANGED <<replayVars, extVars>>
    /\ UNCHANGED <<rSteps, rStore, shuttingDown, gePc, alive, rExitCode, rBrowser,
                   pageOpen, handlers, nClicks, pendingEvents, emitted, nSignals,
                   shutdownSaves, exitCalls, saves, syncOwner, lastClick>>

\* page.waitForTimeout(1500), then waitForLoadState of extractContent.
MainAwaitDone ==
    /\ Js /\ rMain \in {"wait", "loadstate"} /\ pageOpen
    /\ rMain' = IF rMain = "wait" THEN "loadstate" ELSE "evaluate"
    /\ UNCHANGED <<replayVars, extVars>>
    /\ UNCHANGED <<rSteps, rStore, shuttingDown, gePc, alive, rExitCode, rBrowser,
                   pageOpen, pageUrl, handlers, nClicks, pendingEvents, emitted,
                   nSignals, shutdownSaves, exitCalls, saves, syncOwner,
                   lastClick>>

\* A main that puts the initial step in front of the sequence.
MainUnshiftInitial ==
    /\ Js /\ rMain = "evaluate" /\ pageOpen
    /\ rSteps' = <<MkStep(Null, StartUrl, pageUrl, ContentOf(pageUrl), TRUE)>>
                    \o rSteps
    /\ rMain' = "save"
    /\ syncOwner' = MainOwner
    /\ UNCHANGED <<replayVars, extVars>>
    /\ UNCHANGED <<rStore, shuttingDown, gePc, alive, rExitCode, rBrowser,
                   pageOpen, pageUrl, handlers, nClicks, pendingEvents, emitted,
                   nSignals, shutdownSaves, exitCalls, saves, lastClick>>

\* page.evaluate resolves with the content of the current document; the
\* initial step is pushed (part_000 179-188).
MainPushInitial ==
    /\ Js /\ rMain = "evaluate" /\ pageOpen
    /\ rSteps' = Append(rSteps,
                        MkStep(Null, StartUrl, pageUrl, ContentOf(pageUrl), TRUE))
    /\ rMain' = "save"
    /\ syncOwner' = MainOwner
    /\ UNCHANGED <<replayVars, extVars>>
    /\ UNCHANGED <<rStore, shuttingDown, gePc, alive, rExitCode, rBrowser,
                   pageOpen, pageUrl, handlers, nClicks, pendingEvents, emitted,
                   nSignals, shutdownSaves, exitCalls, saves, lastClick>>

\* saveSteps(steps) of main (part_000 190).
MainSave ==
    /\ alive /\ syncOwner = MainOwner
    /\ saveSteps
    /\ rMain' = "done"
    /\ syncOwner' = NoOwner
    /\ UNCHANGED <<replayVars, extVars>>
    /\ UNCHANGED <<rSteps, shuttingDown, gePc, alive, rExitCode, rBrowser,
                   pageOpen, pageUrl, handlers, nClicks, pendingEvents, emitted,
                   nSignals, shutdownSaves, exitCalls, lastClick>>

\* An awaited operation of main rejects: main rejects, nothing handles the
\* rejection and the process ends with exit code 1.
MainFail ==
    /\ Js /\ rMain \in {"goto", "wait", "loadstate", "evaluate"}
    /\ rMain' = "failed"
    /\ alive' = FALSE
    /\ rExitCode' = 1
    /\ UNCHANGED <<replayVars, extVars>>
    /\ UNCHANGED <<rSteps, rStore, shuttingDown, gePc, rBrowser, pageOpen,
                   pageUrl, handlers, nClicks, pendingEvents, emitted, nSignals,
                   shutdownSaves, exitCalls, saves, syncOwner, lastClick>>

\* The user clicks an anchor of the current document; the page-side listener
\* runs (part_000 148-168).
Click ==
    /\ alive /\ pageOpen /\ pageUrl # Blank /\ nClicks < MaxClicks
    /\ nClicks' = nClicks + 1
    /\ \E a \in Anchors :
         LET outcome == ClickOutcome(a, pageUrl)
             href == HrefOf(a, pageUrl)
         IN  /\ handlers' =
                  IF outcome = "notify"
                  THEN [handlers EXCEPT ![nClicks + 1] =
                          [IdleHandler EXCEPT !.pc = "called",
                                              !.selector = SelectorOf(a),
                                              !.href = href]]
                  ELSE IF outcome = "default" THEN Interrupt(handlers)
                  ELSE handlers
             /\ pageUrl' = IF outcome = "default" THEN Redirect(href) ELSE pageUrl
             /\ lastClick' = [anchor |-> a, outcome |-> outcome]
    /\ UNCHANGED <<replayVars, extVars>>
    /\ UNCHANGED <<rMain, rSteps, rStore, shuttingDown, gePc, alive, rExitCode,
                   rBrowser, pageOpen, pendingEvents, emitted, nSignals,
                   shutdownSaves, exitCalls, saves, syncOwner>>

\* if (!payload.selector || payload.selector === "a") return;
IgnoredSelector(selector) == selector = <<>> \/ selector = <<"a">>

\* The binding is called (part_000 114-124): read the URL, resolve the
\* target, return on an unusable selector, else issue page.goto.
HandlerStart(h) ==
    /\ Js /\ handlers[h].pc = "called"
    /\ \A g \in 1..(h - 1) : handlers[g].pc # "called"
    /\ handlers' =
         IF IgnoredSelector(handlers[h].selector)
         THEN [handlers EXCEPT ![h] = EndedHandler]
         ELSE [Interrupt(handlers) EXCEPT
                 ![h] = [handlers[h] EXCEPT !.pc = "goto",
                                            !.fromUrl = pageUrl,
                                            !.rawTarget = handlers[h].href]]
    /\ UNCHANGED <<replayVars, extVars>>
    /\ UNCHANGED <<rMain, rSteps, rStore, shuttingDown, gePc, alive, rExitCode,
                   rBrowser, pageOpen, pageUrl, nClicks, pendingEvents, emitted,
                   nSignals, shutdownSaves, exitCalls, saves, syncOwner,
                   lastClick>>

\* The navigation of the handler's page.goto commits in the browser.
HandlerNavCommit(h) ==
    /\ alive /\ pageOpen /\ handlers[h].pc = "goto"
    /\ pageUrl' = Redirect(handlers[h].rawTarget)
    /\ handlers' = [handlers EXCEPT ![h].pc = "committed"]
    /\ UNCHANGED <<replayVars, extVars>>
    /\ UNCHANGED <<rMain, rSteps, rStore, shuttingDown, gePc, alive, rExitCode,
                   rBrowser, pageOpen, nClicks, pendingEvents, emitted, nSignals,
                   shutdownSaves, exitCalls, saves, syncOwner, lastClick>>

\* page.goto resolves: finalUrl = page.url(), extractContent is called.
HandlerGotoDone(h) ==
    /\ Js /\ pageOpen /\ handlers[h].pc = "committed"
    /\ handlers' = [handlers EXCEPT ![h].pc = "loadstate",
                                    ![h].finalUrl = pageUrl]
    /\ UNCHANGED <<replayVars, extVars>>
    /\ UNCHANGED <<rMain, rSteps, rStore, shuttingDown, gePc, alive, rExitCode,
                   rBrowser, pageOpen, pageUrl, nClicks, pendingEvents, emitted,
                   nSignals, shutdownSaves, exitCalls, saves, syncOwner,
                   lastClick>>

\* page.waitForLoadState("domcontentloaded") resolves, page.evaluate is called.
HandlerLoadStateDone(h) ==
    /\ Js /\ pageOpen /\ handlers[h].pc = "loadstate"
    /\ handlers' = [handlers EXCEPT ![h].pc = "evaluate"]
    /\ UNCHANGED <<replayVars, extVars>>
    /\ UNCHANGED <<rMain, rSteps, rStore, shuttingDown, gePc, alive, rExitCode,
                   rBrowser, pageOpen, pageUrl, nClicks, pendingEvents, emitted,
                   nSignals, shutdownSaves, exitCalls, saves, syncOwner,
                   lastClick>>

\* page.evaluate resolves with the content of the current document; the
\* step is built and pushed (part_000 129-137).
HandlerPush(h) ==
    /\ Js /\ pageOpen /\ handlers[h].pc = "evaluate"
    /\ rSteps' = Append(rSteps,
                        MkStep(handlers[h].selector, handlers[h].fromUrl,
                               handlers[h].finalUrl, ContentOf(pageUrl), FALSE))
    /\ handlers' = [handlers EXCEPT ![h].pc = "save"]
    /\ syncOwner' = HandlerOwner(h)
    /\ UNCHANGED <<replayVars, extVars>>
    /\ UNCHANGED <<rMain, rStore, shuttingDown, gePc, alive, rExitCode, rBrowser,
                   pageOpen, pageUrl, nClicks, pendingEvents, emitted, nSignals,
                   shutdownSaves, exitCalls, saves, lastClick>>

\* saveSteps(steps) of the handler (part_000 138).
HandlerSave(h) ==
    /\ alive /\ syncOwner = HandlerOwner(h) /\ handlers[h].pc = "save"
    /\ saveSteps
    /\ handlers' = [handlers EXCEPT ![h] = EndedHandler]
    /\ syncOwner' = NoOwner
    /\ UNCHANGED <<replayVars, extVars>>
    /\ UNCHANGED <<rMain, rSteps, shuttingDown, gePc, alive, rExitCode, rBrowser,
                   pageOpen, pageUrl, nClicks, pendingEvents, emitted, nSignals,
                   shutdownSaves, exitCalls, lastClick>>

\* An awaited operation of the handler rejects: the binding call rejects and
\* the handler is over; the process goes on.
HandlerFail(h) ==
    /\ Js /\ handlers[h].pc \in {"goto", "committed", "loadstate", "evaluate"}
    /\ handlers' = [handlers EXCEPT ![h] = EndedHandler]
    /\ UNCHANGED <<replayVars, extVars>>
    /\ UNCHANGED <<rMain, rSteps, rStore, shuttingDown, gePc, alive, rExitCode,
                   rBrowser, pageOpen, pageUrl, nClicks, pendingEvents, emitted,
                   nSignals, shutdownSaves, exitCalls, saves, syncOwner,
                   lastClick>>

CloseEvents == {"page.close", "context.close", "browser.disconnected"}

\* The events in S that were not emitted before are emitted.
Emit(S) ==
    /\ pendingEvents' = pendingEvents \cup (S \ emitted)
    /\ emitted' = emitted \cup S

\* gracefulExit without the latch test.
gracefulExitNoLatch ==
    /\ shuttingDown' = TRUE
    /\ saveSteps
    /\ shutdownSaves' = shutdownSaves + 1
    /\ gePc' = "closing"

\* gracefulExit up to its await (part_000 95-100): return when the latch is
\* set; else set it, save, and call browser.close().
gracefulExit ==
    IF shuttingDown
    THEN UNCHANGED <<shuttingDown, rStore, saves, shutdownSaves, gePc>>
    ELSE /\ shuttingDown' = TRUE
         /\ saveSteps
         /\ shutdownSaves' = shutdownSaves + 1
         /\ gePc' = "closing"

\* A close or disconnected event is delivered to its listener.
DeliverEvent ==
    /\ Js
    /\ \E e \in pendingEvents : pendingEvents' = pendingEvents \ {e}
    /\ gracefulExit
    /\ UNCHANGED <<replayVars, extVars>>
    /\ UNCHANGED <<rMain, rSteps, alive, rExitCode, rBrowser, pageOpen, pageUrl,
                   handlers, nClicks, emitted, nSignals, exitCalls, syncOwner,
                   lastClick>>

\* SIGINT or SIGTERM is delivered to its listener.
Signal ==
    /\ Js /\ nSignals < MaxSignals
    /\ nSignals' = nSignals + 1
    /\ gracefulExit
    /\ UNCHANGED <<replayVars, extVars>>
    /\ UNCHANGED <<rMain, rSteps, alive, rExitCode, rBrowser, pageOpen, pageUrl,
                   handlers, nClicks, pendingEvents, emitted, exitCalls,
                   syncOwner, lastClick>>

\* The user closes the page.
UserClosesPage ==
    /\ alive /\ pageOpen
    /\ pageOpen' = FALSE
    /\ Emit({"page.close"})
    /\ UNCHANGED <<replayVars, extVars>>
    /\ UNCHANGED <<rMain, rSteps, rStore, shuttingDown, gePc, alive, rExitCode,
                   rBrowser, pageUrl, handlers, nClicks, nSignals, shutdownSaves,
                   exitCalls, saves, syncOwner, lastClick>>

\* The browser goes away: the user closes it, or the browser.close() of
\* gracefulExit takes effect.  Page, context and browser emit their events.
BrowserCloses ==
    /\ alive /\ rBrowser = "open"
    /\ rBrowser' = "closed"
    /\ pageOpen' = FALSE
    /\ Emit(CloseEvents)
    /\ UNCHANGED <<replayVars, extVars>>
    /\ UNCHANGED <<rMain, rSteps, rStore, shuttingDown, gePc, alive, rExitCode,
                   pageUrl, handlers, nClicks, nSignals, shutdownSaves, exitCalls,
                   saves, syncOwner, lastClick>>

\* browser.close() resolves; process.exit(0) (part_000 100-101).
CloseDone ==
    /\ Js /\ gePc = "closing" /\ rBrowser = "closed"
    /\ gePc' = "exited"
    /\ exitCalls' = exitCalls + 1
    /\ alive' = FALSE
    /\ rExitCode' = 0
    /\ UNCHANGED <<replayVars, extVars>>
    /\ UNCHANGED <<rMain, rSteps, rStore, shuttingDown, rBrowser, pageOpen,
                   pageUrl, handlers, nClicks, pendingEvents, emitted, nSignals,
                   shutdownSaves, saves, syncOwner, lastClick>>

\* browser.close() rejects: gracefulExit rejects, nothing handles the
\* rejection and the process ends with exit code 1.
CloseFail ==
    /\ Js /\ gePc = "closing"
    /\ gePc' = "failed"
    /\ alive' = FALSE
    /\ rExitCode' = 1
    /\ UNCHANGED <<replayVars, extVars>>
    /\ UNCHANGED <<rMain, rSteps, rStore, shuttingDown, rBrowser, pageOpen,
                   pageUrl, handlers, nClicks, pendingEvents, emitted, nSignals,
                   shutdownSaves, exitCalls, saves, syncOwner, lastClick>>

RecNext ==
    \/ MainGotoDone
    \/ MainAwaitDone
    \/ MainPushInitial
    \/ MainSave
    \/ MainFail
    \/ Click
    \/ \E h \in 1..MaxClicks : HandlerStart(h)
    \/ \E h \in 1..MaxClicks : HandlerNavCommit(h)
    \/ \E h \in 1..MaxClicks : HandlerGotoDone(h)
    \/ \E h \in 1..MaxClicks : HandlerLoadStateDone(h)
    \/ \E h \in 1..MaxClicks : HandlerPush(h)
    \/ \E h \in 1..MaxClicks : HandlerSave(h)
    \/ \E h \in 1..MaxClicks : HandlerFail(h)
    \/ DeliverEvent
    \/ Signal
    \/ UserClosesPage
    \/ BrowserCloses
    \/ CloseDone
    \/ CloseFail

\* ------------------------------------------------- extraction on its own

NotExtracted == [done |-> FALSE, snap |-> Snapshot("", "", <<>>, "")]
Extracted(c) == [done |-> TRUE, snap |-> c]

ExtractInit ==
    /\ doc \in Documents
    /\ recorded = NotExtracted
    /\ replayed = NotExtracted

\* The Recorder extracts the content of the document.
RecorderExtract ==
    /\ ~recorded.done
    /\ recorded' = Extracted(extractContent(doc))
    /\ UNCHANGED <<doc, replayed>>
    /\ UNCHANGED <<replayVars, recVars>>

\* The Replayer extracts the content of the document.
ReplayerExtract ==
    /\ ~replayed.done
    /\ replayed' = Extracted(replayExtractContent(doc))
    /\ UNCHANGED <<doc, recorded>>
    /\ UNCHANGED <<replayVars, recVars>>

ExtractNext ==
    \/ RecorderExtract
    \/ ReplayerExtract

\* ---------------------------------------------------------- specifications

vars == <<replayVars, recVars, extVars>>

\* The program that is not running.
ReplayIdle ==
    /\ legacy = FALSE
    /\ storeFile = NoFile
    /\ env = RequiredSettings
    /\ pc = "idle"
    /\ steps = <<>>
    /\ results = <<>>
    /\ hasMismatch = FALSE
    /\ failureEmailSent = FALSE
    /\ i = 0
    /\ live = NoLive
    /\ err = NoErr
    /\ uncaught = NoErr
    /\ browser = "none"
    /\ navigated = <<>>
    /\ alerts = <<>>
    /\ report = NoReport
    /\ exitCode = -1

RecIdle ==
    /\ rMain = "idle"
    /\ rSteps = <<>>
    /\ rStore = NoFile
    /\ shuttingDown = FALSE
    /\ gePc = "idle"
    /\ alive = FALSE
    /\ rExitCode = -1
    /\ rBrowser = "closed"
    /\ pageOpen = FALSE
    /\ pageUrl = Blank
    /\ handlers = [h \in 1..MaxClicks |-> IdleHandler]
    /\ nClicks = 0
    /\ pendingEvents = {}
    /\ emitted = {}
    /\ nSignals = 0
    /\ shutdownSaves = 0
    /\ exitCalls = 0
    /\ saves = 0
    /\ syncOwner = NoOwner
    /\ lastClick = NoClick

ExtractIdle ==
    /\ doc = Document("", "", "", <<>>, NoRoot, <<>>)
    /\ recorded = NotExtracted
    /\ replayed = NotExtracted

\* One run of the Replayer.
Init == ReplayInit /\ RecIdle /\ ExtractIdle

Next == ReplayNext

Spec == Init /\ [][Next]_vars

\* One session of the Recorder.
InitRecorder == RecInit /\ ReplayIdle /\ ExtractIdle

SpecRecorder == InitRecorder /\ [][RecNext]_vars

\* Both extractions of one document.
InitExtract == ExtractInit /\ ReplayIdle /\ RecIdle

SpecExtract == InitExtract /\ [][ExtractNext]_vars


\* -------------------------------------------------------- Replayer claims

\* Indexes of the results that failed.
Mismatches == {k \in 1..Len(results) : ~results[k].pass}

FirstMismatch == CHOOSE k \in Mismatches : \A j \in Mismatches : k <= j

\* The Step a StepResult extends.
StepOf(r) == MkStep(r.selector, r.url, r.target_href, r.content, r.isInitial)

\* results are the StepResults of the first Len(results) steps, in order.
ResultsFollowSteps ==
    /\ Len(results) <= Len(steps)
    /\ \A k \in 1..Len(results) : StepOf(results[k]) = steps[k]

\* The alert block of the first failed step has been passed.
FirstMismatchHandled ==
    /\ Mismatches # {}
    /\ ~(pc = "alert" /\ Len(results) = FirstMismatch)

\* C1: in one run sendFailureEmail is called at most once; once the first
\* mismatching step has been processed the one call is the mismatch alert of
\* that step, and no later mismatch or crash adds a call.
C1_AtMostOneAlert ==
    /\ Len(alerts) <= 1
    /\ FirstMismatchHandled =>
         /\ Len(alerts) = 1
         /\ alerts[1].subject = SubjectMismatch
         /\ alerts[1].html.step = FirstMismatch
         /\ alerts[1].html.url = steps[FirstMismatch].target_href

\* Two steps mismatched and the run then crashed: still one alert.
C1_Witness ==
    /\ Cardinality(Mismatches) >= 2
    /\ err # NoErr
    /\ pc = "exited"
    /\ Len(alerts) = 1

\* C2 (as claimed): a run of replay.ts in which a step mismatched and in
\* which no navigation, wait or extraction failed ends with one StepResult
\* per recorded step, in recorded order.
C2_MismatchNeverEndsRun ==
    ( /\ ~legacy
      /\ pc \in {"finally", "report", "exited"}
      /\ Mismatches # {}
      /\ err \notin {ErrGoto, ErrSettle, ErrEvaluate, ErrPause} )
    => /\ Len(results) = Len(steps)
       /\ ResultsFollowSteps

\* C3 (as claimed): a run of replay.ts that entered the step loop and closed
\* the browser has written the report, one block per accumulated StepResult.
C3_ReportAlwaysWritten ==
    (~legacy /\ pc = "exited" /\ navigated # <<>> /\ browser = "closed")
    => report = ReportOf(results)

\* C4 (as claimed): when a driver operation of replay.ts fails at step
\* k = i + 1, the accumulated results are those of steps 1..k-1.
C4_ResultsBeforeFailedStep ==
    (~legacy /\ err \in {ErrGoto, ErrSettle, ErrEvaluate, ErrPause})
    => Len(results) = i /\ ResultsFollowSteps

\* C4 (amended): after a failure at step k = i + 1 the loop is never
\* re-entered and page.goto of step k was the last one issued; the results
\* are those of steps 1..k-1 when the navigation, the settle wait or the
\* extraction failed, and those of steps 1..k when the failure came after
\* the comparison (alert send, trailing wait).
C4_AbortAtFailedStep ==
    err # NoErr
    => /\ pc \in {"catch", "finally", "report", "exited"}
       /\ Len(navigated) = i + 1
       /\ \A k \in 1..Len(navigated) : navigated[k] = steps[k].target_href
       /\ ResultsFollowSteps
       /\ Len(results) = IF err \in {ErrGoto, ErrSettle, ErrEvaluate}
                         THEN i ELSE i + 1

\* Navigation failed at the second step after the first was recorded.
C4_Witness ==
    /\ err = ErrGoto
    /\ i = 1
    /\ Len(results) = 1
    /\ pc = "exited"

\* The run crashed after validation: an awaited operation rejected.
Crashed ==
    err # NoErr \/ uncaught \in {ErrLaunch, ErrClose, ErrSendMail}

\* C5 (as claimed): a finished run of replay.ts in which a step mismatched
\* or which crashed has called the alert transport, and a crash alert
\* carries the reason of the error.
C5_MismatchOrCrashAlerts ==
    (~legacy /\ pc = "exited" /\ (Mismatches # {} \/ Crashed))
    => /\ Len(alerts) >= 1
       /\ alerts[1].subject = SubjectCrashed => alerts[1].html.reason = err

\* The run never left its start-up: nothing launched, opened, sent, written.
NoBrowserWork ==
    /\ browser = "none"
    /\ navigated = <<>>
    /\ results = <<>>
    /\ alerts = <<>>
    /\ ~report.written

C7_NoWorkWithoutConfig ==
    env # RequiredSettings => NoBrowserWork

\* The words of a string: its maximal runs of non-whitespace characters.
RECURSIVE WordsFrom(_, _, _)
WordsFrom(s, k, word) ==
    IF k > Len(s)
    THEN IF word = <<>> THEN <<>> ELSE <<word>>
    ELSE IF s[k] \in Whitespace
         THEN (IF word = <<>> THEN <<>> ELSE <<word>>) \o WordsFrom(s, k + 1, <<>>)
         ELSE WordsFrom(s, k + 1, Append(word, s[k]))

\* The whitespace-collapsed, trimmed form, stated through the words; a
\* missing firstP has none.
Words(s) == IF s = Undefined THEN <<>> ELSE WordsFrom(s, 1, <<>>)

\* C8: pass holds exactly when recorded and live firstP have the same
\* collapsed, trimmed form, and two results with the same recorded and live
\* firstP have the same pass whatever their title, h1 and metaDescription.
C8_PassIsFirstPEquality ==
    /\ \A k \in 1..Len(results) :
         results[k].pass
           = (Words(results[k].content.firstP) = Words(results[k].liveContent.firstP))
    /\ \A j, k \in 1..Len(results) :
         ( /\ results[j].content.firstP = results[k].content.firstP
           /\ results[j].liveContent.firstP = results[k].liveContent.firstP )
         => results[j].pass = results[k].pass

\* A step passed while title, h1 and metaDescription differ; another passed
\* with firstP recorded as missing and extracted as empty.
C8_Witness ==
    /\ \E k \in 1..Len(results) :
         /\ results[k].pass
         /\ results[k].content.title # results[k].liveContent.title
         /\ results[k].content.firstP # results[k].liveContent.firstP
    /\ \E k \in 1..Len(results) :
         /\ results[k].pass
         /\ results[k].content.firstP = Undefined


\* -------------------------------------------------------- Recorder claims

\* C9: however many triggers arrive and in whatever order, gracefulExit
\* saves exactly once and process.exit is called at most once, after that
\* save; a shutdown that has begun is at its browser.close() until the
\* process has ended.
C9_ShutdownExactlyOnce ==
    /\ shutdownSaves <= 1
    /\ exitCalls <= 1
    /\ shuttingDown <=> shutdownSaves = 1
    /\ exitCalls = 1 => (shutdownSaves = 1 /\ ~alive /\ rExitCode = 0)
    /\ (shuttingDown /\ alive) => gePc = "closing"
    /\ (shuttingDown /\ ~alive) => (exitCalls = 1 \/ rExitCode = 1)

\* Two signals and a close event of the shutdown's own browser.close() were
\* all delivered, and the process exited through process.exit.
C9_Witness ==
    /\ nSignals >= 2
    /\ emitted = CloseEvents
    /\ pendingEvents # CloseEvents
    /\ shutdownSaves = 1
    /\ exitCalls = 1

IsPrefix(p, q) == Len(p) <= Len(q) /\ SubSeq(q, 1, Len(p)) = p

\* What this session has persisted.
Persisted == IF saves > 0 THEN rStore.steps ELSE <<>>

\* C10: the persisted sequence is a prefix of the in-memory one and lacks at
\* most its last step; it lacks that step only between a push and its save,
\* so that while the Recorder waits for the next click the store equals the
\* in-memory sequence.
C10_AppendThenSave ==
    /\ IsPrefix(Persisted, rSteps)
    /\ Len(rSteps) - Len(Persisted) <= 1
    /\ syncOwner = NoOwner => Persisted = rSteps
    /\ (rMain = "done" /\ syncOwner = NoOwner) => rStore = StoreOf(rSteps)

\* The Recorder waits for the next click with the initial step and a click
\* step recorded.
C10_Witness ==
    /\ alive /\ ~shuttingDown
    /\ rMain = "done"
    /\ syncOwner = NoOwner
    /\ Len(rSteps) >= 2
    /\ \A h \in 1..MaxClicks : handlers[h].pc \in {"idle", "ended"}

\* The recordClick call of click h has begun and has not returned or rejected.
InProgress(h) ==
    handlers[h].pc \in {"goto", "committed", "loadstate", "evaluate", "save"}

\* C11 (as claimed): no recordClick call begins while the call of an earlier
\* notification is in progress, so at most one call is in progress.
C11_OneHandlerAtATime ==
    \A g, h \in 1..MaxClicks : (g < h /\ InProgress(g)) => ~InProgress(h)

\* C12 (as claimed): the listener suppresses the default navigation of every
\* anchor click it sees, also when it forms no selector: the browser never
\* follows a clicked link by itself.
C12_DefaultSuppressed ==
    lastClick.outcome # "default"

\* The notification of the latest click: its slot is idle when the listener
\* sent none, and keeps the selector until the call has ended.
LastNotification == handlers[nClicks]

NotifiedWith(selector) ==
    /\ LastNotification.pc # "idle"
    /\ LastNotification.pc # "ended" => LastNotification.selector = selector

\* Every recorded click step carries the selector its notification carried,
\* and that is a selector of one of the two forms.
StepsCarrySelector ==
    /\ \A h \in 1..MaxClicks :
         handlers[h].pc = "save"
           => rSteps[Len(rSteps)].selector = handlers[h].selector
    /\ \A k \in 1..Len(rSteps) :
         ~rSteps[k].isInitial
           => \E a \in Anchors :
                \/ a.id # "" /\ rSteps[k].selector = <<"a#", a.id>>
                \/ /\ a.id = "" /\ a.attr \notin {NoAttr, ""}
                   /\ rSteps[k].selector = <<"a[href=", a.attr>>

\* C13 (as claimed): an anchor with an id is notified with a#<id> whatever
\* its href; one without id and with a non-empty raw href attribute with
\* a[href="<raw href>"]; one with neither is not notified; recorded steps
\* carry the derived selector.
C13_SelectorDerivation ==
    /\ nClicks > 0 =>
         LET a == lastClick.anchor
         IN  /\ a.id # "" => NotifiedWith(<<"a#", a.id>>)
             /\ (a.id = "" /\ a.attr \notin {NoAttr, ""})
                  => NotifiedWith(<<"a[href=", a.attr>>)
             /\ (a.id = "" /\ a.attr \in {NoAttr, ""})
                  => LastNotification.pc = "idle"
    /\ StepsCarrySelector

\* C13 (amended): an anchor without href attribute is never notified, with
\* or without id; one with href attribute and id is notified with a#<id>;
\* one with a non-empty raw href attribute and no id with
\* a[href="<raw href>"]; one with an empty href attribute and no id is not
\* notified; recorded steps carry the derived selector.
C13_SelectorDerivationWithHref ==
    /\ nClicks > 0 =>
         LET a == lastClick.anchor
         IN  /\ a.attr = NoAttr => LastNotification.pc = "idle"
             /\ (a.attr # NoAttr /\ a.id # "") => NotifiedWith(<<"a#", a.id>>)
             /\ (a.id = "" /\ a.attr \notin {NoAttr, ""})
                  => NotifiedWith(<<"a[href=", a.attr>>)
             /\ (a.id = "" /\ a.attr = "") => LastNotification.pc = "idle"
    /\ StepsCarrySelector

\* An anchor with an id and no href was clicked without a notification,
\* after a click on an anchor with id and href was recorded as a step.
C13_Witness ==
    /\ lastClick.anchor = Anchor("y", NoAttr)
    /\ LastNotification.pc = "idle"
    /\ \E k \in 1..Len(rSteps) : rSteps[k].selector = <<"a#", "x">>


\* ------------------------------------------------------ extraction claims

\* C14 (as claimed): whatever the document, extractContent returns a firstP
\* of length greater than 0, in the Recorder and in the Replayer.
C14_FirstPNeverEmpty ==
    /\ recorded.done => Len(recorded.snap.firstP) > 0
    /\ replayed.done => Len(replayed.snap.firstP) > 0

\* The words of s, left to right: s is cut behind its first word and the
\* rest is treated likewise.
RECURSIVE WordList(_)
WordList(s) ==
    LET inWord == {k \in 1..Len(s) : s[k] \notin Whitespace}
    IN  IF inWord = {} THEN <<>>
        ELSE LET from == CHOOSE k \in inWord : \A j \in inWord : k <= j
                 ends == {k \in from..Len(s) :
                            k = Len(s) \/ s[k + 1] \in Whitespace}
                 to == CHOOSE k \in ends : \A j \in ends : k <= j
             IN  <<SubSeq(s, from, to)>> \o WordList(SubSeq(s, to + 1, Len(s)))

\* The words joined by single spaces.
RECURSIVE Joined(_)
Joined(ws) ==
    IF ws = <<>> THEN <<>>
    ELSE IF Len(ws) = 1 THEN ws[1]
    ELSE ws[1] \o <<" ">> \o Joined(Tail(ws))

\* The whitespace-collapsed, trimmed text.
NormalText(s) == Joined(WordList(s))

\* firstP as the claim states it.
StatedFirstP(d) ==
    LET region == IF d.root.present
                  THEN SubSeq(d.paras, d.root.lo, d.root.hi) ELSE <<>>
        cands == region \o d.paras
        long == {k \in 1..Len(cands) : Len(NormalText(cands[k])) > 40}
        body == NormalText(d.innerText)
    IN  IF long # {}
        THEN NormalText(cands[CHOOSE k \in long : \A j \in long : k <= j])
        ELSE IF Len(body) <= 200 THEN body ELSE SubSeq(body, 1, 200)

\* C17: in the Recorder and in the Replayer firstP is the collapsed, trimmed
\* text of the first candidate (paragraphs of the main content region, then
\* all paragraphs) longer than 40 characters once normalized, and without
\* such a candidate the collapsed, trimmed visible text cut to 200 characters.
C17_FirstPSelection ==
    /\ recorded.done => recorded.snap.firstP = StatedFirstP(doc)
    /\ replayed.done => replayed.snap.firstP = StatedFirstP(doc)

\* Both extractions skipped a first paragraph of exactly 40 characters
\* (more with its surrounding whitespace) and returned the second one.
C17_Witness ==
    /\ recorded.done /\ replayed.done
    /\ ~doc.root.present
    /\ Len(doc.paras) = 2
    /\ Len(doc.paras[1]) > 40
    /\ Len(NormalText(doc.paras[1])) = 40
    /\ recorded.snap.firstP = NormalText(doc.paras[2])
    /\ Len(recorded.snap.firstP) > 40

\* ------------------------------------------------------ round-trip claims

\* The content the Replayer extracts for a step on the unchanged site:
\* page.goto(step.target_href) ends where the site redirects to.
ReplayLive(step) == replayExtractContent(SiteDoc(Redirect(step.target_href)))

\* C15 (as claimed): every step this session has persisted passes when it
\* is replayed against the unchanged site.
C15_ReplayOfRecordingPasses ==
    \A k \in 1..Len(Persisted) : PassOf(Persisted[k], ReplayLive(Persisted[k]))

\* ------------------------------------------------ Replayer claims, again

\* The run got as far as the step loop: the browser was launched and
\* context and page were opened.
LoopEntered == browser # "none" /\ uncaught # ErrLaunch

\* C16: a run that entered the step loop and has left the try statement,
\* on whichever path, has closed the browser, unless browser.close() itself
\* rejected; and a written report was written with the browser closed.
C16_BrowserClosedOnEveryPath ==
    /\ (LoopEntered /\ pc \in {"report", "exited"})
         => (browser = "closed" \/ uncaught = ErrClose)
    /\ (pc = "report" \/ report.written) => browser = "closed"

\* The run crashed in the loop, its crash alert could not be sent, and the
\* browser was closed all the same.
C16_Witness ==
    /\ pc = "exited"
    /\ err = ErrGoto
    /\ uncaught = ErrSendMail
    /\ browser = "closed"

\* ------------------------------------------------ Recorder claims, again

\* C18: every step of a recording session leaves what the session has
\* persisted so far as a prefix of what is persisted afterwards: a rewrite
\* of the store never alters, reorders or removes a step.
C18_StoreOnlyGrows ==
    [][IsPrefix(Persisted, Persisted')]_vars

\* The store was rewritten after the initial step, after a click step and
\* at shutdown, and holds both steps.
C18_Witness ==
    /\ saves >= 3
    /\ shutdownSaves = 1
    /\ Len(Persisted) >= 2
    /\ \E k \in 1..Len(Persisted) : Persisted[k].isInitial
    /\ \E k \in 1..Len(Persisted) : ~Persisted[k].isInitial

\* The initial step of a session on the entry page.
EntryStep ==
    MkStep(Null, StartUrl, Redirect(StartUrl), ContentOf(Redirect(StartUrl)),
           TRUE)

\* C19 (as claimed): the sequence holds at most one initial step; a step has
\* the null selector exactly when it is the initial one; and a non-empty
\* sequence begins with the initial step, taken on the entry page.
C19_InitialStepFirst ==
    /\ Cardinality({k \in 1..Len(rSteps) : rSteps[k].isInitial}) <= 1
    /\ \A k \in 1..Len(rSteps) :
         rSteps[k].isInitial <=> rSteps[k].selector = Null
    /\ rSteps # <<>> => rSteps[1] = EntryStep

\* C20 (as claimed): the content of every recorded step is the content of
\* the page at the step's target_href.
C20_ContentOfTargetPage ==
    \A k \in 1..Len(rSteps) :
      rSteps[k].content = ContentOf(rSteps[k].target_href)

====
